---- MODULE Spec2Model ----
(***************************************************************************)
(* Decision stream pipeline of the safety dashboard repository.            *)
(*                                                                         *)
(*   scripts/generate_demo_data.py  the sequence generator: one random     *)
(*       draw per row, a running streak of non-Normal draws, and the       *)
(*       escalation rule; writes outputs/demo_safety_timeline.csv.         *)
(*   app/streamlit_app.py           the analyzer: loads a table, checks    *)
(*       its columns, sorts it by timestamp, counts the decisions, filters *)
(*       the Warning rows and computes the calm_streak column.             *)
(*                                                                         *)
(* A draw of np.random.rand() is modelled in hundredths (roll < 0.75 is    *)
(* roll < 75).  A timestamp is an integer number of minutes.               *)
(***************************************************************************)
EXTENDS Integers, Sequences, FiniteSets, TLC

VARIABLES
    rolls,            \* the draws made so far, one per row (np.random.rand)
    current_streak,   \* generate_demo_data.py: current_streak
    risk_levels,      \* generate_demo_data.py: risk_levels
    warning_streaks,  \* generate_demo_data.py: warning_streaks
    decisions,        \* generate_demo_data.py: decisions
    demo_file,        \* outputs/demo_safety_timeline.csv
    a_pc,             \* position of the dashboard script
    mode,             \* streamlit_app.py: mode (the radio choice)
    upload,           \* what the file uploader returned
    df,               \* streamlit_app.py: df
    loaded,           \* the table as load_csv returned it, before the sort
    stop_reason,      \* why the script stopped, "none" while it has not
    rendered,         \* the sections of the page produced so far
    summary,          \* the three metrics <<Normal, Warning, Critical>>
    warning_df,       \* streamlit_app.py: warning_df
    calm_streak       \* df["calm_streak"], in the row order of df

gen_vars == <<rolls, current_streak, risk_levels, warning_streaks, decisions, demo_file>>

app_vars == <<a_pc, mode, upload, df, loaded, stop_reason, rendered, summary, warning_df, calm_streak>>

vars == <<rolls, current_streak, risk_levels, warning_streaks, decisions, demo_file, a_pc, mode, upload, df, loaded, stop_reason, rendered, summary, warning_df, calm_streak>>

---------------------------------------------------------------------------
(* Bounds of the model *)

\* rows the generator emits (N_ROWS, 250 in the script)
MaxRows == 4

\* longest uploaded table
MaxLen == 5

\* longest uploaded table whose rows may share timestamps or arrive unsorted
MaxTieLen == 2

\* uploaded timestamps are drawn from 1..MaxTime
MaxTime == 2

---------------------------------------------------------------------------
(* Program constants *)

\* START_TIME = "2025-01-01 08:00:00", as minutes after midnight
START_TIME == 480

\* freq = "2min"
FREQ == 2

\* roll < 0.75, in hundredths
NORMAL_BELOW == 75

\* roll < 0.93, in hundredths
WARNING_BELOW == 93

\* current_streak >= 3
ESCALATION_STREAK == 3

\* no file: a path that does not exist, an uploader that returned None, df = None
NoFile == [kind |-> "absent", cols |-> {}, rows |-> <<>>]

\* a file pd.read_csv cannot parse
Garbage == [kind |-> "garbage", cols |-> {}, rows |-> <<>>]

\* a table: its column names and its rows
Table(cols, rows) == [kind |-> "table", cols |-> cols, rows |-> rows]

REQUIRED_COLUMNS == {"timestamp", "system_decision", "warning_streak", "risk_level"}

DECISION_MAP == ("Normal" :> 0) @@ ("Warning" :> 1) @@ ("Critical" :> 2)

COLOR_MAP == ("Normal" :> "green") @@ ("Warning" :> "orange") @@ ("Critical" :> "red")

\* the draws tried: each side of both thresholds
Rolls == {74, 75, 92, 93}

---------------------------------------------------------------------------
(* The sequence generator: scripts/generate_demo_data.py *)

\* the branch of the if/elif/else a roll takes: its risk
BaseRisk(roll) == IF roll < NORMAL_BELOW THEN 0 ELSE IF roll < WARNING_BELOW THEN 1 ELSE 2

\* the branch of the if/elif/else a roll takes: its decision
BaseDecision(roll) == IF roll < NORMAL_BELOW THEN "Normal" ELSE IF roll < WARNING_BELOW THEN "Warning" ELSE "Critical"

NextStreakWarningOnly(streak, roll) == IF roll < NORMAL_BELOW THEN 0 ELSE IF roll < WARNING_BELOW THEN streak + 1 ELSE streak

NextStreakNoReset(streak, roll) == IF roll < NORMAL_BELOW THEN streak ELSE streak + 1

\* the branch of the if/elif/else a roll takes: current_streak
NextStreak(streak, roll) == IF roll < NORMAL_BELOW THEN 0 ELSE streak + 1

EscalateAboveThreshold(streak, risk) == streak > ESCALATION_STREAK /\ risk = 1

\* the condition of the escalation rule
Escalate(streak, risk) == streak >= ESCALATION_STREAK /\ risk = 1

FinalRiskNotUpgraded(streak, risk) == risk

\* risk after the escalation rule
FinalRisk(streak, risk) == IF Escalate(streak, risk) THEN 2 ELSE risk

\* decision after the escalation rule
FinalDecision(streak, risk, decision) == IF Escalate(streak, risk) THEN "Critical" ELSE decision

\* pd.date_range(start = START_TIME, periods = N_ROWS, freq = "2min"), row i of 1..N
Timestamp(i) == START_TIME + (i - 1) * FREQ

\* one row of the table: its columns, and idx, the row's index label
Row(ts, dec, ws, rl, idx) == [timestamp |-> ts, system_decision |-> dec, warning_streak |-> ws, risk_level |-> rl, idx |-> idx]

\* the DataFrame the script builds, as to_csv(index=False) writes it and read_csv
\* reads it back: the four columns, and a fresh index 1..N
BuildDataframe == Table(REQUIRED_COLUMNS, [i \in 1..Len(decisions) |-> Row(Timestamp(i), decisions[i], warning_streaks[i], risk_levels[i], i)])

\* one pass of the loop body: a draw, the branch it takes, the escalation rule,
\* the three appends
GenRow ==
    /\ demo_file = NoFile
    /\ Len(decisions) < MaxRows
    /\ \E roll \in Rolls :
         LET streak == NextStreak(current_streak, roll)
             risk == BaseRisk(roll)
             decision == BaseDecision(roll)
         IN /\ rolls' = Append(rolls, roll)
            /\ current_streak' = streak
            /\ risk_levels' = Append(risk_levels, FinalRisk(streak, risk))
            /\ warning_streaks' = Append(warning_streaks, streak)
            /\ decisions' = Append(decisions, FinalDecision(streak, risk, decision))
    /\ UNCHANGED demo_file
    /\ UNCHANGED app_vars

\* after the loop: build the DataFrame and save it
GenSave ==
    /\ demo_file = NoFile
    /\ Len(decisions) = MaxRows
    /\ demo_file' = BuildDataframe
    /\ UNCHANGED <<rolls, current_streak, risk_levels, warning_streaks, decisions>>
    /\ UNCHANGED app_vars

---------------------------------------------------------------------------
(* The analyzer: app/streamlit_app.py *)

Modes == {"Demo data", "Timeline CSV", "Replay CSV"}

\* a system_decision outside Normal / Warning / Critical
Unknown == "Alert"

Decisions == {"Normal", "Warning", "Critical", Unknown}

\* an uploaded row: the analyzer never reads risk_level, and reads warning_streak
\* only to plot it
UploadRow(ts, dec, idx) == Row(ts, dec, 0, 0, idx)

\* uploaded tables of up to MaxLen rows that arrive in ascending order, one
\* timestamp each
OrderedUploads == {Table(REQUIRED_COLUMNS, [i \in 1..Len(d) |-> UploadRow(i, d[i], i)]) : d \in UNION {[1..n -> Decisions] : n \in 0..MaxLen}}

\* the tables of n rows whose timestamps are any of 1..MaxTime
TablesOfLen(cols, n) == {Table(cols, [i \in 1..n |-> UploadRow(t[i], d[i], i)]) : t \in [1..n -> 1..MaxTime], d \in [1..n -> Decisions]}

\* uploaded tables of up to MaxTieLen rows in any order, timestamps shared or not
TiedUploads == UNION {TablesOfLen(REQUIRED_COLUMNS, n) : n \in 0..MaxTieLen}

\* uploaded tables of one row that lack one of the required columns
ShortUploads == UNION {TablesOfLen(REQUIRED_COLUMNS \ {c}, 1) : c \in REQUIRED_COLUMNS}

\* what st.sidebar.file_uploader can return
Uploads == {NoFile, Garbage} \cup OrderedUploads \cup TiedUploads \cup ShortUploads

\* pd.read_csv(path_or_file, parse_dates=["timestamp"]) returns a table: the
\* file parses, and the column named in parse_dates is there
ParseOk(file) == file.kind = "table" /\ "timestamp" \in file.cols

validate_schema_unchecked(table) == TRUE

\* validate_schema: no required column is missing
validate_schema(table) == REQUIRED_COLUMNS \ table.cols = {}

Smallest(S) == CHOOSE r \in S : \A x \in S : r.timestamp <= x.timestamp

\* the orders of the rows S that ascend by timestamp
RECURSIVE AscendingOrders(_)
AscendingOrders(S) == IF S = {} THEN {<<>>} ELSE UNION {{<<r>> \o s : s \in AscendingOrders(S \ {r})} : r \in {x \in S : x.timestamp = Smallest(S).timestamp}}

\* the set of the rows of a sequence
RowSet(rows) == {rows[i] : i \in 1..Len(rows)}

\* df.sort_values("timestamp"): kind defaults to quicksort, which pandas
\* documents as not stable, so rows of equal timestamp come out in any order
sort_values(rows) == AscendingOrders(RowSet(rows))

\* (df["system_decision"] == decision).sum()
CountOf(rows, decision) == Cardinality({i \in 1..Len(rows) : rows[i].system_decision = decision})

\* the three metrics
Metrics(rows) == <<CountOf(rows, "Normal"), CountOf(rows, "Warning"), CountOf(rows, "Critical")>>

\* df["system_decision"].map(COLOR_MAP) has a value for every row
AllMapped(rows) == \A i \in 1..Len(rows) : rows[i].system_decision \in DOMAIN COLOR_MAP

\* ax.scatter with a colour missing: matplotlib either raises or draws the rest
ScatterOutcomes(rows) == IF AllMapped(rows) THEN {"drawn"} ELSE {"drawn", "raised"}

IsWarning(row) == row.system_decision = "Warning"

\* df[df["system_decision"] == "Warning"]
FilterWarnings(rows) == SelectSeq(rows, IsWarning)

\* df["is_calm"], as int
is_calm(rows, i) == IF rows[i].system_decision = "Normal" THEN 1 ELSE 0

GroupKeyOfCalm(rows, i) == Cardinality({j \in 1..i : is_calm(rows, j) = 1})

\* (~df["is_calm"]).cumsum(): the group a row falls in
GroupKey(rows, i) == Cardinality({j \in 1..i : is_calm(rows, j) = 0})

\* .groupby(key).cumsum(): the sum of is_calm over the rows of the same group
\* up to and including row i
GroupCumsum(rows, i) == Cardinality({j \in 1..i : GroupKey(rows, j) = GroupKey(rows, i) /\ is_calm(rows, j) = 1})

\* the calm_streak column
CalmStreak(rows) == [i \in 1..Len(rows) |-> GroupCumsum(rows, i)]

\* st.stop(): the script ends here
Stop(reason) ==
    /\ a_pc' = "stopped"
    /\ stop_reason' = reason

\* an exception escapes the script: streamlit shows it and the script ends
Raise(reason) ==
    /\ a_pc' = "exception"
    /\ stop_reason' = reason

\* the data loading logic for a radio choice m and an uploader result f
LoadData(m, f) ==
    /\ a_pc = "start"
    /\ mode' = m
    /\ upload' = IF m = "Demo data" THEN NoFile ELSE f
    /\ LET file == IF m = "Demo data" THEN demo_file ELSE f
       IN IF m = "Demo data" /\ file.kind = "absent"
          THEN Stop("demo_not_found") /\ UNCHANGED <<df, loaded>>
          ELSE IF file.kind = "absent"
          THEN a_pc' = "guard" /\ UNCHANGED <<df, loaded, stop_reason>>
          ELSE IF ParseOk(file)
          THEN a_pc' = "guard" /\ df' = file /\ loaded' = file /\ UNCHANGED stop_reason
          ELSE Stop("parse_failure") /\ UNCHANGED <<df, loaded>>
    /\ UNCHANGED <<rendered, summary, warning_df, calm_streak>>
    /\ UNCHANGED gen_vars

\* the dashboard run on the demo data
SelectDemo == LoadData("Demo data", NoFile)

\* the dashboard run with any radio choice and any upload
SelectAny == a_pc = "start" /\ \E m \in Modes, f \in Uploads : LoadData(m, f)

\* the two guardrails
Guardrails ==
    /\ a_pc = "guard"
    /\ IF df.kind = "absent" THEN Stop("no_source")
       ELSE IF ~validate_schema(df) THEN Stop("schema")
       ELSE a_pc' = "sort" /\ UNCHANGED stop_reason
    /\ UNCHANGED <<mode, upload, df, loaded, rendered, summary, warning_df, calm_streak>>
    /\ UNCHANGED gen_vars

\* df = df.sort_values("timestamp")
SortValues ==
    /\ a_pc = "sort"
    /\ IF "timestamp" \in df.cols
       THEN /\ \E sorted \in sort_values(df.rows) : df' = [df EXCEPT !.rows = sorted]
            /\ rendered' = rendered \cup {"sort"}
            /\ a_pc' = "metrics"
            /\ UNCHANGED stop_reason
       ELSE Raise("KeyError") /\ UNCHANGED <<df, rendered>>
    /\ UNCHANGED <<mode, upload, loaded, summary, warning_df, calm_streak>>
    /\ UNCHANGED gen_vars

\* the high-level metrics
HighLevelMetrics ==
    /\ a_pc = "metrics"
    /\ IF "system_decision" \in df.cols
       THEN /\ summary' = Metrics(df.rows)
            /\ rendered' = rendered \cup {"summary"}
            /\ a_pc' = "timeline"
            /\ UNCHANGED stop_reason
       ELSE Raise("KeyError") /\ UNCHANGED <<summary, rendered>>
    /\ UNCHANGED <<mode, upload, df, loaded, warning_df, calm_streak>>
    /\ UNCHANGED gen_vars

\* the timeline scatter plot
Timeline ==
    /\ a_pc = "timeline"
    /\ \E outcome \in ScatterOutcomes(df.rows) :
         IF outcome = "drawn"
         THEN a_pc' = "warning" /\ UNCHANGED stop_reason
         ELSE Raise("ValueError")
    /\ UNCHANGED <<mode, upload, df, loaded, rendered, summary, warning_df, calm_streak>>
    /\ UNCHANGED gen_vars

\* the warning cluster analysis
WarningCluster ==
    /\ a_pc = "warning"
    /\ IF "warning_streak" \in df.cols
       THEN /\ warning_df' = FilterWarnings(df.rows)
            /\ rendered' = rendered \cup {"warning_df"}
            /\ a_pc' = "calm"
            /\ UNCHANGED stop_reason
       ELSE Raise("KeyError") /\ UNCHANGED <<warning_df, rendered>>
    /\ UNCHANGED <<mode, upload, df, loaded, summary, calm_streak>>
    /\ UNCHANGED gen_vars

\* the calm period analysis
CalmPeriod ==
    /\ a_pc = "calm"
    /\ calm_streak' = CalmStreak(df.rows)
    /\ rendered' = rendered \cup {"calm_streak"}
    /\ a_pc' = "done"
    /\ UNCHANGED <<mode, upload, df, loaded, stop_reason, summary, warning_df>>
    /\ UNCHANGED gen_vars

---------------------------------------------------------------------------
(* Specifications *)

Init ==
    /\ rolls = <<>>
    /\ current_streak = 0
    /\ risk_levels = <<>>
    /\ warning_streaks = <<>>
    /\ decisions = <<>>
    /\ demo_file = NoFile
    /\ a_pc = "start"
    /\ mode = "Demo data"
    /\ upload = NoFile
    /\ df = NoFile
    /\ loaded = NoFile
    /\ stop_reason = "none"
    /\ rendered = {}
    /\ summary = <<>>
    /\ warning_df = <<>>
    /\ calm_streak = <<>>

\* the generator, and the dashboard on the demo data
Next == GenRow \/ GenSave \/ SelectDemo \/ Guardrails \/ SortValues \/ HighLevelMetrics \/ Timeline \/ WarningCluster \/ CalmPeriod

Spec == Init /\ [][Next]_vars

\* the dashboard on uploads, the generator never run
NextUpload == SelectAny \/ Guardrails \/ SortValues \/ HighLevelMetrics \/ Timeline \/ WarningCluster \/ CalmPeriod

SpecUpload == Init /\ [][NextUpload]_vars

---------------------------------------------------------------------------
(* Properties of the generator *)

\* the number of consecutive non-Normal draws ending at and including draw i
RECURSIVE RunLength(_, _)
RunLength(rs, i) == IF i = 0 THEN 0 ELSE IF BaseDecision(rs[i]) = "Normal" THEN 0 ELSE 1 + RunLength(rs, i - 1)

\* C1: a Warning draw whose run of non-Normal draws has reached 3 is emitted as
\* Critical with risk_level 2; a Warning draw with a run of 1 or 2 is emitted as
\* Warning.
C1_EscalationTrigger == \A i \in 1..Len(decisions) : BaseDecision(rolls[i]) = "Warning" => IF RunLength(rolls, i) >= 3 THEN decisions[i] = "Critical" /\ risk_levels[i] = 2 ELSE decisions[i] = "Warning"

\* the scenario of the spec: draws Normal, Warning, Warning, Warning
C1_Witness == /\ Len(rolls) = 4
              /\ [i \in 1..4 |-> BaseDecision(rolls[i])] = <<"Normal", "Warning", "Warning", "Warning">>
              /\ decisions = <<"Normal", "Warning", "Warning", "Critical">>
              /\ warning_streaks = <<0, 1, 2, 3>>

\* C2: warning_streak is the number of consecutive non-Normal draws ending at the
\* record: 0 exactly on a Normal draw, the previous record's value plus 1 on a
\* Warning or Critical draw, counted from 0 before the first record, and left
\* alone by the escalation rule.
C2_StreakCountsRun == /\ Len(warning_streaks) = Len(rolls)
                      /\ current_streak = RunLength(rolls, Len(rolls))
                      /\ \A i \in 1..Len(warning_streaks) :
                           /\ warning_streaks[i] = RunLength(rolls, i)
                           /\ warning_streaks[i] = 0 <=> BaseDecision(rolls[i]) = "Normal"
                           /\ BaseDecision(rolls[i]) # "Normal" => warning_streaks[i] = (IF i = 1 THEN 0 ELSE warning_streaks[i - 1]) + 1

\* a Critical draw inside a run, an escalated Warning after it, then a Normal
C2_Witness == \E i \in 3..Len(rolls) : /\ BaseDecision(rolls[i - 2]) = "Critical"
                                       /\ BaseDecision(rolls[i - 1]) = "Warning"
                                       /\ decisions[i - 1] = "Critical"
                                       /\ warning_streaks[i - 1] >= 3
                                       /\ BaseDecision(rolls[i]) = "Normal"
                                       /\ warning_streaks[i] = 0

\* C3: every emitted record has risk_level = DECISION_MAP[decision], the
\* escalated ones included, in the lists and in the file written.
C3_RiskMatchesDecision == /\ Len(risk_levels) = Len(decisions)
                          /\ \A i \in 1..Len(decisions) : risk_levels[i] = DECISION_MAP[decisions[i]]
                          /\ \A i \in 1..Len(demo_file.rows) : demo_file.rows[i].risk_level = DECISION_MAP[demo_file.rows[i].system_decision]

\* the file holds a record the escalation rule changed
C3_Witness == \E i \in 1..Len(demo_file.rows) : /\ BaseDecision(rolls[i]) = "Warning"
                                                /\ demo_file.rows[i].system_decision = "Critical"
                                                /\ demo_file.rows[i].risk_level = 2

\* C10: in the generator's output a record is Normal iff its warning_streak is 0,
\* a Warning has warning_streak 1 or 2 and a Critical has warning_streak >= 1;
\* the dashboard's Warning rows of that output never show a warning_streak above
\* 2, and its calm_streak is positive exactly where warning_streak is 0.
C10_DecisionBoundsStreak == /\ \A i \in 1..Len(decisions) :
                                 /\ decisions[i] = "Normal" <=> warning_streaks[i] = 0
                                 /\ decisions[i] = "Warning" => warning_streaks[i] \in {1, 2}
                                 /\ decisions[i] = "Critical" => warning_streaks[i] >= 1
                            /\ "warning_df" \in rendered => \A k \in 1..Len(warning_df) : warning_df[k].warning_streak \in {1, 2}
                            /\ "calm_streak" \in rendered => \A i \in 1..Len(df.rows) : calm_streak[i] > 0 <=> df.rows[i].warning_streak = 0

\* the dashboard has finished on a generated file with an escalated record, a
\* Warning row and a Normal row
C10_Witness == /\ a_pc = "done"
               /\ df = [demo_file EXCEPT !.rows = df.rows]
               /\ Len(warning_df) > 0
               /\ \E i \in 1..Len(df.rows) : df.rows[i].system_decision = "Critical" /\ df.rows[i].warning_streak >= 3
               /\ \E i \in 1..Len(df.rows) : calm_streak[i] > 0

---------------------------------------------------------------------------
(* Properties of the analyzer *)

\* calm_streak by the run-length recurrence over system_decision = Normal
RECURSIVE CalmRecurrence(_, _)
CalmRecurrence(rows, i) == IF i = 0 THEN 0 ELSE IF rows[i].system_decision = "Normal" THEN CalmRecurrence(rows, i - 1) + 1 ELSE 0

\* C4: the calm_streak column equals the recurrence calm_streak[i] =
\* calm_streak[i-1] + 1 on a Normal row, 0 otherwise, over the sorted rows.
C4_CalmStreakRecurrence == "calm_streak" \in rendered => /\ Len(calm_streak) = Len(df.rows)
                                                         /\ \A i \in 1..Len(df.rows) : calm_streak[i] = CalmRecurrence(df.rows, i)

\* the scenario of the spec: Normal, Warning, Warning, Warning, Normal
C4_Witness == /\ a_pc = "done"
              /\ [i \in 1..Len(df.rows) |-> df.rows[i].system_decision] = <<"Normal", "Warning", "Warning", "Warning", "Normal">>
              /\ calm_streak = <<1, 0, 0, 0, 1>>

\* the loaded table has a system_decision outside the three categories
HasUnknown == /\ loaded.kind = "table"
              /\ "system_decision" \in loaded.cols
              /\ \E i \in 1..Len(loaded.rows) : loaded.rows[i].system_decision \notin DOMAIN DECISION_MAP

\* C5: a table with a system_decision outside Normal / Warning / Critical is
\* rejected: no summary and no calm_streak is produced for it.
C5_UnknownDecisionRejected == HasUnknown => "summary" \notin rendered /\ "calm_streak" \notin rendered

\* C6: the three counts of a rendered summary add up to the number of rows.
C6_CountsSumToLen == "summary" \in rendered => summary[1] + summary[2] + summary[3] = Len(df.rows)

\* C7: after the sort the rows ascend by timestamp, and rows of equal timestamp
\* keep the order they were loaded in.
C7_StableSort == "sort" \in rendered => \A i, j \in 1..Len(df.rows) : i < j => \/ df.rows[i].timestamp < df.rows[j].timestamp
                                                                               \/ df.rows[i].timestamp = df.rows[j].timestamp /\ df.rows[i].idx < df.rows[j].idx

\* the file the script was given
GivenFile == IF mode = "Demo data" THEN demo_file ELSE upload

\* no data source, a file that does not parse, or a required column missing
InputError == \/ GivenFile.kind = "absent"
              \/ GivenFile.kind = "garbage"
              \/ GivenFile.kind = "table" /\ REQUIRED_COLUMNS \ GivenFile.cols # {}

\* C8: with no data source, a file that does not parse or a required column
\* missing, the script stops at the guardrails at the latest: no sort, summary,
\* Warning filter or calm_streak is ever produced.
C8_FailFast == (a_pc # "start" /\ InputError) => rendered = {} /\ a_pc \in {"guard", "stopped"}

\* the script stopped on a table that parses and lacks a column
C8_Witness == a_pc = "stopped" /\ stop_reason = "schema" /\ upload.kind = "table" /\ rendered = {}

====
